---- MODULE Spec2Model ----
(***************************************************************************)
(* blankshield: protection against reverse tabnabbing.                     *)
(*                                                                         *)
(* Two versions of the library are modelled side by side:                  *)
(*   variant = "iframe" : src/blankshield.js  (clickListener, iframeOpen,  *)
(*                        addEventListener)                                *)
(*   variant = "direct" : src/unnamed/part_000 (handler, addEvent)         *)
(*                                                                         *)
(* The host (browser) is the environment: which registration API an        *)
(* element offers, the shape of the event object a handler receives,       *)
(* whether window.open is blocked, and the attributes of the clicked       *)
(* anchor are inputs of the actions.                                       *)
(***************************************************************************)
EXTENDS Integers, Sequences, FiniteSets, TLC

VARIABLES
    variant,    \* which version of the library the page has loaded
    api,        \* per element: the registration API the element offers
    listeners,  \* per element: listeners held by the native registration API
    slot,       \* per element: the "onclick" property, as the chain it invokes
    iframes,    \* number of iframes created by the library now in the document
    pc,         \* "idle": the host's event loop is free; "returned": a call
                \* into the library has just returned to the host
    last        \* what the call that has just returned was given and did

vars == <<variant, api, listeners, slot, iframes, pc, last>>

---------------------------------------------------------------------------
(* Bounds of the model *)

\* longest collection (and longest string) handed to blankshield()
MaxColl == 2

\* most registrations of the click listener kept per element
MaxRegs == 2

---------------------------------------------------------------------------
(* Values *)

Elements == {"e1", "e2"}

Variants == {"iframe", "direct"}

\* what feature probing finds on an element
Apis == {"std", "attach", "none"}

\* "L" is the library's click listener; "A" is a handler the page itself
\* assigned to the element's onclick property before the library ran
Handlers == {"L", "A"}

\* an attribute the element does not have
Absent == "absent"

\* the href attribute as getAttribute sees it: missing, or present with a value
NoHrefAttr == [present |-> FALSE, value |-> <<>>]

HrefAttr(u) == [present |-> TRUE, value |-> u]

Undefined == "undefined"

NullValue == "null"

\* the characters hrefs are made of: a plain character, a double quote,
\* a backslash, a line feed, and the three characters of the comment attack
DQ == "dq"

BS == "bs"

LF == "lf"

RP == "rp"

SC == "sc"

SL == "sl"

SeqsUpTo(S, n) == UNION {[1..k -> S] : k \in 0..n}

\* an href that closes the string literal and the call, and comments out
\* the rest of the generated line:   a");//
CommentAttack == <<"a", DQ, RP, SC, SL, SL>>

\* the href values clicks are tried with: empty, plain, one holding a
\* double quote, a backslash or a line feed, an escaped quote, and the
\* comment attack
Urls ==
    { <<>>, <<"a">>, <<"a", DQ>>, <<"a", BS>>, <<"a", LF>>, <<BS, DQ>>,
      CommentAttack }

Hrefs == {HrefAttr(u) : u \in Urls} \cup {NoHrefAttr}

Targets == {Absent, "_blank", "_self"}

\* the three modifier flags an event carries
Mods == [ctrl : BOOLEAN, shift : BOOLEAN, meta : BOOLEAN]

\* how the host hands the event to a handler: arg is the handler's argument
\* ("std": an Event with target and preventDefault; "legacy": an event with
\* srcElement and returnValue only; "none": no argument), win is window.event
\* the deliveries a host makes to handlers registered through each API:
\* addEventListener hosts pass a standard Event; attachEvent hosts pass the
\* legacy event; an onclick property is called with a standard Event, or with
\* nothing while window.event holds the legacy event
DeliveriesOf(a) ==
    IF a = "std" THEN { [arg |-> "std", win |-> "std"] }
    ELSE IF a = "attach" THEN { [arg |-> "legacy", win |-> "legacy"] }
    ELSE { [arg |-> "std", win |-> "std"],
           [arg |-> "std", win |-> Undefined],
           [arg |-> "none", win |-> "legacy"] }

---------------------------------------------------------------------------
(* iframeOpen: the generated script and what it does when it runs *)

\* script.text up to and including the quote that opens the string literal
ScriptPrefix ==
    <<"parent=null", "top=null", "frameElement=null", "child=open(", DQ>>

\* script.text after the url:   ");child.opener = null
ScriptSuffix == <<DQ, RP, SC, "child.opener=null">>

\* the raw concatenation of lines 110-112
ScriptText(url) == ScriptPrefix \o url \o ScriptSuffix

\* the host's scan of a double-quoted string literal of text t from index i:
\* a quote ends it, a backslash takes the next character (and swallows a line
\* feed), a bare line feed or the end of the text is a syntax error
RECURSIVE StringLiteral(_, _, _)
StringLiteral(t, i, val) ==
    IF i > Len(t) THEN [ok |-> FALSE, val |-> val, next |-> i]
    ELSE IF t[i] = DQ THEN [ok |-> TRUE, val |-> val, next |-> i + 1]
    ELSE IF t[i] = LF THEN [ok |-> FALSE, val |-> val, next |-> i]
    ELSE IF t[i] = BS THEN
        IF i + 1 > Len(t) THEN [ok |-> FALSE, val |-> val, next |-> i]
        ELSE IF t[i + 1] = LF THEN StringLiteral(t, i + 2, val)
        ELSE StringLiteral(t, i + 2, Append(val, t[i + 1]))
    ELSE StringLiteral(t, i + 1, Append(val, t[i]))

\* the host's parse of what follows the string literal: the argument
\* window.open gets and whether the statement child.opener = null is still
\* part of the program. After the literal the text must be the suffix's
\*   );child.opener = null ,  or  );//  followed by no line feed (the rest is
\* then a comment); every other continuation over the characters of Urls is
\* a syntax error.
ParseRest(val, rest) ==
    IF rest = <<RP, SC, "child.opener=null">>
    THEN [ok |-> TRUE, arg |-> val, disown |-> TRUE]
    ELSE IF /\ Len(rest) >= 4
            /\ SubSeq(rest, 1, 4) = <<RP, SC, SL, SL>>
            /\ \A k \in 5..Len(rest) : rest[k] # LF
    THEN [ok |-> TRUE, arg |-> val, disown |-> FALSE]
    ELSE [ok |-> FALSE, arg |-> <<>>, disown |-> FALSE]

\* the parse of text t once its string literal has been scanned as lit
ParseAfter(t, lit) ==
    IF ~lit.ok THEN [ok |-> FALSE, arg |-> <<>>, disown |-> FALSE]
    ELSE ParseRest(lit.val, SubSeq(t, lit.next, Len(t)))

\* the host's parse of the generated script
ParseScript(t) == ParseAfter(t, StringLiteral(t, Len(ScriptPrefix) + 1, <<>>))

\* the statements that clear the iframe's own references
NullingSteps == <<"parent=null", "top=null", "frameElement=null">>

\* what the parsed script p does when it runs inside the iframe: the steps
\* it performs, its calls of window.open, and the browsing contexts it leaves
\* behind with their opener. A script with a syntax error runs no statement.
\* A blocked window.open returns null, and then child.opener = null raises a
\* TypeError inside the script, which the host reports; it does not reach the
\* code that appended the script.
ScriptEffect(p, blocked) ==
    IF ~p.ok
    THEN [steps |-> <<>>, openCalls |-> <<>>, contexts |-> <<>>,
          scriptError |-> TRUE]
    ELSE IF blocked
    THEN [steps |-> NullingSteps \o <<"open">>, openCalls |-> <<p.arg>>,
          contexts |-> <<>>, scriptError |-> p.disown]
    ELSE IF p.disown
    THEN [steps |-> NullingSteps \o <<"open", "disown">>,
          openCalls |-> <<p.arg>>,
          contexts |-> <<[url |-> p.arg, opener |-> NullValue]>>,
          scriptError |-> FALSE]
    ELSE [steps |-> NullingSteps \o <<"open">>, openCalls |-> <<p.arg>>,
          contexts |-> <<[url |-> p.arg, opener |-> "iframe"]>>,
          scriptError |-> FALSE]

\* iframeDoc.body.appendChild(script), lines 108-113: the script built from
\* url runs
RunScript(url, blocked) == ScriptEffect(ParseScript(ScriptText(url)), blocked)

\* document.body.removeChild(iframe), line 115: the iframes left in the
\* document of the n that were there
RemoveIframe(n) == n - 1

\* the iframe around the run r of the script: appended before, removed after
AroundScript(r) ==
    [steps |-> <<"append">> \o r.steps \o <<"remove">>,
     openCalls |-> r.openCalls,
     contexts |-> r.contexts,
     scriptError |-> r.scriptError,
     created |-> 1,
     left |-> RemoveIframe(1)]

\* iframeOpen(url), lines 100-116: append a hidden iframe, inject the script,
\* remove the iframe
IframeOpen(url, blocked) == AroundScript(RunScript(url, blocked))

---------------------------------------------------------------------------
(* The click listener of each version *)

\* what one run of a listener did: calls of the isolation strategy (iso),
\* calls of window.open, browsing contexts opened with their opener at the
\* end of the run, calls of preventDefault (pd), assignments returnValue =
\* false (rv), whether the listener raised, its return value, iframes created
\* and iframes left in the document
NoAction ==
    [iso |-> <<>>, openCalls |-> <<>>, contexts |-> <<>>, pd |-> 0, rv |-> 0,
     threw |-> FALSE, scriptError |-> FALSE, ret |-> Undefined,
     created |-> 0, left |-> 0, steps |-> <<>>]

\* a TypeError leaves the listener before it has done anything
Thrown == [NoAction EXCEPT !.threw = TRUE, !.ret = "threw"]

\* !href : getAttribute gives null for a missing attribute, "" for an empty one
NoHref(href) == ~href.present \/ href.value = <<>>

\* (e.ctrlKey || e.shiftKey || e.metaKey)
UsedModifier(mods) == mods.ctrl \/ mods.shift \/ mods.meta

\* the test that lets the click through: no modifier and target is not "_blank"
NotBlankLike(mods, target) == ~UsedModifier(mods) /\ target # "_blank"

\* e = e || window.event
EventOf(d) == IF d.arg # "none" THEN d.arg ELSE d.win

\* the cancellation of the default action, lines 32-37 of blankshield.js:
\* preventDefault when the event has it, returnValue = false otherwise
Cancel(e) == IF e = "std" THEN [pd |-> 1, rv |-> 0] ELSE [pd |-> 0, rv |-> 1]

\* lines 30-39 of blankshield.js: iframeOpen(href) has done o, the default
\* action is cancelled as c says, and the listener returns false
Isolated(url, o, c) ==
    [iso |-> <<url>>, openCalls |-> o.openCalls, contexts |-> o.contexts,
     pd |-> c.pd, rv |-> c.rv, threw |-> FALSE,
     scriptError |-> o.scriptError, ret |-> "false",
     created |-> o.created, left |-> o.left, steps |-> o.steps]

\* clickListener(e) of blankshield.js, once e is known
ClickListenerOn(e, href, target, mods, blocked) ==
    IF e = Undefined THEN Thrown
    ELSE IF NoHref(href) THEN NoAction
    ELSE IF NotBlankLike(mods, target) THEN NoAction
    ELSE Isolated(href.value, IframeOpen(href.value, blocked), Cancel(e))

\* clickListener(e) of blankshield.js
ClickListener(d, href, target, mods, blocked) ==
    ClickListenerOn(EventOf(d), href, target, mods, blocked)

\* child = window.open(href); child.opener = null;  of part_000: the handle
\* is null when the popup is blocked, and the assignment then raises
DirectOpen(href, blocked) ==
    IF blocked
    THEN [openCalls |-> <<href>>, contexts |-> <<>>, threw |-> TRUE]
    ELSE [openCalls |-> <<href>>,
          contexts |-> <<[url |-> href, opener |-> NullValue]>>,
          threw |-> FALSE]

\* lines 15-18 of part_000: the open has done o; e.preventDefault() is
\* reached only if the line before it did not raise
DirectIsolated(url, o) ==
    [iso |-> <<url>>, openCalls |-> o.openCalls, contexts |-> o.contexts,
     pd |-> IF o.threw THEN 0 ELSE 1, rv |-> 0,
     threw |-> o.threw, scriptError |-> FALSE,
     ret |-> IF o.threw THEN "threw" ELSE Undefined,
     created |-> 0, left |-> 0, steps |-> <<>>]

\* handler(e) of part_000: it reads e.target and calls e.preventDefault
\* without probing, so only a standard Event passed as the argument gets
\* past its first line
DirectHandler(d, href, target, mods, blocked) ==
    IF d.arg # "std" THEN Thrown
    ELSE IF NoHref(href) THEN NoAction
    ELSE IF NotBlankLike(mods, target) THEN NoAction
    ELSE DirectIsolated(href.value, DirectOpen(href.value, blocked))

\* one call of handler h; the page's own handler "A" does nothing the model
\* observes
Invoke(v, h, d, href, target, mods, blocked) ==
    IF h = "A" THEN NoAction
    ELSE IF v = "iframe" THEN ClickListener(d, href, target, mods, blocked)
    ELSE DirectHandler(d, href, target, mods, blocked)

---------------------------------------------------------------------------
(* Dispatch of a click by the host *)

\* the wrapper of addEventListener's third tier calls listener() and
\* prevListener() with no argument: they see only window.event
InnerDelivery(d) == [arg |-> "none", win |-> d.win]

Nothing ==
    [calls |-> <<>>, iso |-> <<>>, openCalls |-> <<>>, contexts |-> <<>>,
     pd |-> 0, rv |-> 0, errors |-> 0, scriptErrors |-> 0, rets |-> <<>>,
     created |-> 0, left |-> 0, steps |-> <<>>]

Combine(acc, h, eff) ==
    [calls |-> Append(acc.calls, h),
     iso |-> acc.iso \o eff.iso,
     openCalls |-> acc.openCalls \o eff.openCalls,
     contexts |-> acc.contexts \o eff.contexts,
     pd |-> acc.pd + eff.pd,
     rv |-> acc.rv + eff.rv,
     errors |-> acc.errors + (IF eff.threw THEN 1 ELSE 0),
     scriptErrors |-> acc.scriptErrors + (IF eff.scriptError THEN 1 ELSE 0),
     rets |-> Append(acc.rets, eff.ret),
     created |-> acc.created + eff.created,
     left |-> acc.left + eff.left,
     steps |-> acc.steps \o eff.steps]

\* the handlers hs run in order from index i on the click c; with stop, an
\* exception of one ends the run (they are statements of one function)
RECURSIVE RunHandlers(_, _, _, _, _, _, _)
\* the run goes on after handler i, whose effect was eff, with now collected
AfterHandler(v, hs, i, d, stop, c, threw, now) ==
    IF stop /\ threw THEN now
    ELSE RunHandlers(v, hs, i + 1, d, stop, c, now)

RunHandler(v, hs, i, d, stop, c, acc, eff) ==
    AfterHandler(v, hs, i, d, stop, c, eff.threw, Combine(acc, hs[i], eff))

RunHandlers(v, hs, i, d, stop, c, acc) ==
    IF i > Len(hs) THEN acc
    ELSE RunHandler(v, hs, i, d, stop, c, acc,
             Invoke(v, hs[i], d, c.href, c.target, c.mods, c.blocked))

\* everything one click on an element runs: the onclick property, then the
\* listeners of the native API; an onclick property holding a wrapper runs
\* the chain the wrapper calls
Dispatch(v, a, ls, sl, c) ==
    IF a = "none" /\ Len(sl) >= 2
    THEN RunHandlers(v, sl, 1, InnerDelivery(c.d), TRUE, c, Nothing)
    ELSE RunHandlers(v, sl \o ls, 1, c.d, FALSE, c, Nothing)

---------------------------------------------------------------------------
(* Registration *)

Range(f) == {f[i] : i \in DOMAIN f}

\* how many times handler h stands in the sequence hs
Count(hs, h) == Cardinality({i \in DOMAIN hs : hs[i] = h})

\* target.addEventListener(type, listener, false): the host keeps one entry
\* per (type, listener, capture)
NativeAdd(ls, h) == IF h \in Range(ls) THEN ls ELSE Append(ls, h)

\* target.attachEvent(onType, listener): the host keeps every attachment
NativeAttach(ls, h) == Append(ls, h)

\* addEventListener(target, type, listener) of blankshield.js on an element
\* offering API a, whose native listeners are ls and onclick chain is sl
AddEventListener(a, ls, sl, h) ==
    IF a = "std" THEN [ls |-> NativeAdd(ls, h), sl |-> sl]
    ELSE IF a = "attach" THEN [ls |-> NativeAttach(ls, h), sl |-> sl]
    ELSE IF sl # <<>> THEN [ls |-> ls, sl |-> <<h>> \o sl]
    ELSE [ls |-> ls, sl |-> <<h>>]

\* addEvent(target, type, listener) of part_000
AddEvent(a, ls, sl, h) ==
    IF a = "std" THEN [ls |-> NativeAdd(ls, h), sl |-> sl]
    ELSE IF a = "attach" THEN [ls |-> NativeAttach(ls, h), sl |-> sl]
    ELSE [ls |-> ls, sl |-> <<h>>]

Register(v, a, ls, sl, h) ==
    IF v = "iframe" THEN AddEventListener(a, ls, sl, h)
    ELSE AddEvent(a, ls, sl, h)

---------------------------------------------------------------------------
(* blankshield(target): the entry point *)

\* the value of target.length: not there, a number, null, or a string that
\* is no number
NoLength == [t |-> "undefined", n |-> 0]

NumLength(n) == [t |-> "number", n |-> n]

NullLength == [t |-> "object", n |-> 0]

TextLength == [t |-> "string", n |-> 0]

\* what blankshield() is called with: an element (with or without a length
\* property of its own), an array of elements and holes, a primitive string
\* or a String object
SingleTargets ==
    { [kind |-> "element", el |-> e, items |-> <<>>, length |-> l] :
        e \in Elements, l \in {NoLength, NullLength, TextLength} }

ArrayTargets ==
    { [kind |-> "array", el |-> NullValue, items |-> s,
       length |-> NumLength(Len(s))] :
        s \in SeqsUpTo(Elements \cup {NullValue}, MaxColl) }

StringTargets ==
    { [kind |-> k, el |-> NullValue, items |-> s,
       length |-> NumLength(Len(s))] :
        k \in {"string", "String"}, s \in SeqsUpTo({"a"}, MaxColl) }

AttachTargets == SingleTargets \cup ArrayTargets \cup StringTargets

\* typeof target.length === 'undefined'
LengthUndefined(t) == t.length.t = "undefined"

\* a slip: only the primitive string is excluded, a String object is not
NotStringLike_PrimitiveOnly(t) == t.kind # "string"

\* typeof target !== 'string' && !(target instanceof String)
NotStringLike(t) == t.kind # "string" /\ t.kind # "String"

\* the number of turns of  for (i = 0; i < target.length; i++) : the length
\* is compared as a number, null counts as 0 and a text that is no number
\* compares false with every i
LoopTurns(t) == IF t.length.t = "number" THEN t.length.n ELSE 0

\* a slip: the items are read as if they were counted from 1
Item_OneBased(t, i) ==
    IF i >= 1 /\ i <= Len(t.items) THEN t.items[i] ELSE Undefined

\* target[i], i counted from 0
Item(t, i) == IF i + 1 <= Len(t.items) THEN t.items[i + 1] ELSE Undefined

\* the registrations acc with those of element x replaced by r
Registered(acc, x, r) ==
    [listeners |-> [acc.listeners EXCEPT ![x] = r.ls],
     slot |-> [acc.slot EXCEPT ![x] = r.sl],
     log |-> Append(acc.log, x),
     threw |-> FALSE]

\* a slip: an entry that is no element is passed over without an error
RegisterOn_SkipsNonElements(v, acc, x) ==
    IF x \notin Elements THEN acc
    ELSE Registered(acc, x,
             Register(v, api[x], acc.listeners[x], acc.slot[x], "L"))

\* the registration utility called on x: on anything but an element, probing
\* x.addEventListener (null, undefined) or assigning x.onclick (a character,
\* in strict mode) raises a TypeError
RegisterOn(v, acc, x) ==
    IF x \notin Elements THEN [acc EXCEPT !.threw = TRUE]
    ELSE Registered(acc, x,
             Register(v, api[x], acc.listeners[x], acc.slot[x], "L"))

\* the loop of lines 57-59, from index i to n - 1; an exception ends it
RECURSIVE RegisterEach(_, _, _, _, _)
RegisterEach(v, t, i, n, acc) ==
    IF i >= n \/ acc.threw THEN acc
    ELSE RegisterEach(v, t, i + 1, n, RegisterOn(v, acc, Item(t, i)))

\* a slip: the branch for a single element is missing, every target that is
\* no string goes through the loop
Blankshield_NoSingleBranch(v, t, acc) ==
    IF NotStringLike(t) THEN RegisterEach(v, t, 0, LoopTurns(t), acc)
    ELSE acc

\* blankshield(target), lines 53-61; acc carries the registrations before the
\* call, and comes back with those after it, the elements the utility was
\* called on in order (log), and whether the call raised
Blankshield(v, t, acc) ==
    IF LengthUndefined(t) THEN RegisterOn(v, acc, t.el)
    ELSE IF NotStringLike(t) THEN RegisterEach(v, t, 0, LoopTurns(t), acc)
    ELSE acc

---------------------------------------------------------------------------
(* The state machine *)

Init ==
    /\ variant \in Variants
    /\ api \in [Elements -> Apis]
    /\ listeners = [e \in Elements |-> <<>>]
    /\ slot \in [Elements -> {<<>>, <<"A">>}]
    /\ iframes = 0
    /\ pc = "idle"
    /\ last = [op |-> "none"]

\* the registrations r stay within the bound of the model
WithinBound(r) ==
    \A e \in Elements : /\ Count(r.listeners[e], "L") <= MaxRegs
                        /\ Count(r.slot[e], "L") <= MaxRegs

\* blankshield(t) has run and left r
Attaching(t, r) ==
    /\ WithinBound(r)
    /\ listeners' = r.listeners
    /\ slot' = r.slot
    /\ last' = [op |-> "attach", target |-> t, log |-> r.log,
                threw |-> r.threw,
                before |-> [listeners |-> listeners, slot |-> slot]]

\* the page calls blankshield(t)
Attach ==
    /\ pc = "idle"
    /\ \E t \in AttachTargets :
           Attaching(t, Blankshield(variant, t,
                            [listeners |-> listeners, slot |-> slot,
                             log |-> <<>>, threw |-> FALSE]))
    /\ pc' = "returned"
    /\ UNCHANGED <<variant, api, iframes>>

\* the library's listener is reachable from an element's click
Attached(e) == "L" \in Range(listeners[e]) \/ "L" \in Range(slot[e])

\* the handlers of the click c have run and done out
Clicking(c, out) ==
    /\ iframes' = iframes + out.left
    /\ last' = [op |-> "click", in |-> c, out |-> out]

\* the click c dispatched on its element by the host
Dispatched(c) ==
    Clicking(c, Dispatch(variant, api[c.el], listeners[c.el], slot[c.el], c))

\* the user clicks an element the library was attached to; the host runs the
\* handlers registered on it
Click ==
    /\ pc = "idle"
    /\ \E e \in Elements, h \in Hrefs, tg \in Targets, m \in Mods,
          b \in BOOLEAN :
           /\ Attached(e)
           /\ \E d \in DeliveriesOf(api[e]) :
                  Dispatched([el |-> e, href |-> h, target |-> tg,
                              mods |-> m, blocked |-> b, d |-> d])
    /\ pc' = "returned"
    /\ UNCHANGED <<variant, api, listeners, slot>>

\* the host takes up its event loop again; nothing of the finished call is
\* kept but the registrations and the document
Resume ==
    /\ pc = "returned"
    /\ pc' = "idle"
    /\ last' = [op |-> "none"]
    /\ UNCHANGED <<variant, api, listeners, slot, iframes>>

Next == Attach \/ Click \/ Resume

Spec == Init /\ [][Next]_vars

---------------------------------------------------------------------------
(* Vocabulary of the properties *)

\* a click has been dispatched and its handlers have returned to the host
ClickReturned == pc = "returned" /\ last.op = "click"

\* a call of blankshield() has returned (or raised) to the page
AttachReturned == pc = "returned" /\ last.op = "attach"

\* the click's element has an href that is present and not empty
HasUrl(c) == c.href.present /\ c.href.value # <<>>

\* ctrl, shift or meta was held during the click
ModifierHeld(c) == c.mods.ctrl \/ c.mods.shift \/ c.mods.meta

\* a blank-target-like navigation with a destination
QualifyingClick(c) == HasUrl(c) /\ (c.target = "_blank" \/ ModifierHeld(c))

\* how often the default action was cancelled, by either mechanism
Cancels(out) == out.pd + out.rv

\* the click ran the library's listener once, on an element of a host with
\* the standard subscription API
OnStandardHost(c) ==
    api[c.el] = "std" /\ Count(listeners[c.el], "L") = 1

\* the click ran the library's listener once, on an element of a host that
\* offers attachEvent only
OnAttachEventHost(c) ==
    api[c.el] = "attach" /\ Count(listeners[c.el], "L") = 1

---------------------------------------------------------------------------
(* Properties of the click interceptor *)

\* C1: a click on an attached element with a non-empty href X, target
\* "_blank" and no modifier held cancels the default navigation exactly once
\* and invokes the isolation strategy exactly once, with X. Stated for the
\* plainest case the claim covers: one registration, standard host.
C1_BlankClickIsolatesAndCancelsOnce ==
    (/\ ClickReturned
     /\ OnStandardHost(last.in)
     /\ HasUrl(last.in)
     /\ last.in.target = "_blank"
     /\ ~ModifierHeld(last.in))
        => /\ Cancels(last.out) = 1
           /\ last.out.iso = <<last.in.href.value>>

\* C2: with a non-empty href X and a target that is absent or not "_blank",
\* holding ctrl, shift or meta (any one, or several) makes the click invoke
\* the isolation strategy with X. Stated for one registration on a host whose
\* elements offer attachEvent only, one of the hosts both versions register on.
C2_ModifierClickIsolates ==
    (/\ ClickReturned
     /\ OnAttachEventHost(last.in)
     /\ HasUrl(last.in)
     /\ last.in.target # "_blank"
     /\ ModifierHeld(last.in))
        => \E i \in DOMAIN last.out.iso : last.out.iso[i] = last.in.href.value

\* C3: a click on an element whose href is absent or empty invokes no
\* isolation, cancels nothing (no preventDefault, no returnValue = false) and
\* raises no error, whatever the target and the modifiers. Stated for one
\* registration on a host whose elements offer attachEvent only.
C3_NoHrefNoAction ==
    (ClickReturned /\ OnAttachEventHost(last.in) /\ ~HasUrl(last.in))
        => /\ last.out.iso = <<>>
           /\ last.out.pd = 0
           /\ last.out.rv = 0
           /\ last.out.errors = 0

\* C4: isolation is invoked if and only if the href is non-empty and the
\* target is "_blank" or a modifier is held; a click that does not qualify
\* leaves the default navigation uncancelled. Stated for one registration on
\* a host whose elements offer attachEvent only.
C4_IsolationIffQualifying ==
    (ClickReturned /\ OnAttachEventHost(last.in))
        => /\ (last.out.iso # <<>>) <=> QualifyingClick(last.in)
           /\ ~QualifyingClick(last.in) => Cancels(last.out) = 0

\* C5: once the click handler has returned, every browsing context the
\* library opened has a null opener.
C5_OpenedContextsHaveNoOpener ==
    ClickReturned
        => \A i \in DOMAIN last.out.contexts :
               last.out.contexts[i].opener = NullValue

\* C6: in the iframe version, whenever a click handler has returned the
\* document holds no iframe of the library, and every call of iframeOpen
\* created exactly one iframe and made exactly one call of window.open.
C6_IframeGoneOneOpenPerCall ==
    (ClickReturned /\ variant = "iframe")
        => /\ iframes = 0
           /\ last.out.created = Len(last.out.iso)
           /\ Len(last.out.openCalls) = Len(last.out.iso)

\* C7: when window.open returns null on a qualifying click, nothing more is
\* done with the handle and no error is raised: the handling of the click
\* ends without an exception, and window.open is not called a second time.
\* Stated for one registration on a standard host.
C7_BlockedPopupIsSilent ==
    (/\ ClickReturned
     /\ OnStandardHost(last.in)
     /\ QualifyingClick(last.in)
     /\ last.in.blocked)
        => /\ last.out.errors = 0
           /\ Len(last.out.openCalls) <= 1

---------------------------------------------------------------------------
(* Properties of the entry point *)

\* how many registrations of the library's listener element e carries in the
\* registration state r
Registrations(r, e) == Count(r.listeners[e], "L") + Count(r.slot[e], "L")

Now == [listeners |-> listeners, slot |-> slot]

\* the call that has just returned called the registration utility once, on
\* element x, and left every other element as it was
RegisteredOnlyOn(x) ==
    /\ last.log = <<x>>
    /\ ~last.threw
    /\ Attached(x)
    /\ Registrations(Now, x) <= Registrations(last.before, x) + 1
    /\ \A e \in Elements \ {x} :
           /\ listeners[e] = last.before.listeners[e]
           /\ slot[e] = last.before.slot[e]

\* C8, as claimed: a target whose length is absent, or present but not a
\* number, is treated as a single element and gets the click interceptor
\* registered on it exactly once, and nothing else is registered.
C8_NoNumericLengthIsSingle ==
    (/\ AttachReturned
     /\ last.target.kind = "element"
     /\ last.target.length.t # "number")
        => RegisteredOnlyOn(last.target.el)

\* C8, amended: an element whose length property is undefined is treated as
\* a single element and gets the click interceptor registered on it by
\* exactly one call of the registration utility, and nothing else is
\* registered.
C8_UndefinedLengthIsSingle ==
    (/\ AttachReturned
     /\ last.target.kind = "element"
     /\ last.target.length.t = "undefined")
        => RegisteredOnlyOn(last.target.el)

\* a call with a plain element has returned and registered on it, on a page
\* where the other element was registered before
C8_Witness ==
    /\ AttachReturned
     /\ last.target.kind = "element"
     /\ last.target.length.t = "undefined"
     /\ last.target.el = "e2"
     /\ last.log = <<"e2">>
     /\ Attached("e1")

\* C9: a collection of N elements (N >= 0) gets the click interceptor
\* registered on each of its N entries exactly once, in index order 0..N-1,
\* and nothing is registered on an element outside the collection.
C9_CollectionRegisteredInOrder ==
    (/\ AttachReturned
     /\ last.target.kind = "array"
     /\ \A i \in DOMAIN last.target.items : last.target.items[i] \in Elements)
        => /\ last.log = last.target.items
           /\ ~last.threw
           /\ \A e \in Range(last.target.items) : Attached(e)
           /\ \A e \in Elements \ Range(last.target.items) :
                  /\ listeners[e] = last.before.listeners[e]
                  /\ slot[e] = last.before.slot[e]

\* a call with a collection of two different elements has returned
C9_Witness ==
    /\ AttachReturned
     /\ last.target.kind = "array"
     /\ last.target.items = <<"e2", "e1">>
     /\ last.log = <<"e2", "e1">>

\* C10: a string-like target (a primitive string or a String object, of any
\* length) registers nothing, none of its characters is handed to the
\* registration utility, no state changes and no error is raised.
C10_StringRegistersNothing ==
    (/\ AttachReturned
     /\ last.target.kind \in {"string", "String"})
        => /\ last.log = <<>>
           /\ ~last.threw
           /\ listeners = last.before.listeners
           /\ slot = last.before.slot
           /\ iframes = 0

\* a call with a String object of two characters has returned, on a page
\* where an element was registered before
C10_Witness ==
    /\ AttachReturned
     /\ last.target.kind = "String"
     /\ Len(last.target.items) = 2
     /\ Attached("e1")

---------------------------------------------------------------------------
(* Properties of repeated registration and of the registration utility *)

\* C11: attach is idempotent: however often an element was attached (alone
\* or in a collection, possibly listed more than once), one qualifying click
\* on it invokes the isolation strategy exactly once. Stated for
\* blankshield.js on a host whose elements offer attachEvent only.
C11_AttachIsIdempotent ==
    (/\ ClickReturned
     /\ variant = "iframe"
     /\ api[last.in.el] = "attach"
     /\ QualifyingClick(last.in))
        => Len(last.out.iso) = 1

\* the clicks a host without a registration API can dispatch through the
\* onclick property of element x; the anchor has no href, so the library's
\* listener, where it runs, decides to do nothing
SlotClicks(x) ==
    { [el |-> x, href |-> NoHrefAttr, target |-> Absent,
       mods |-> [ctrl |-> FALSE, shift |-> FALSE, meta |-> FALSE],
       blocked |-> FALSE, d |-> d] : d \in DeliveriesOf("none") }

\* C12: when the library's listener is registered on an element that offers
\* neither registration API and whose onclick property already holds the
\* page's handler A, one dispatch through that property afterwards invokes
\* the listener first and then A, each exactly once: the registration did
\* not drop A. Stated for part_000.
C12_ChainKeepsPriorHandler ==
    (/\ AttachReturned
     /\ variant = "direct"
     /\ ~last.threw
     /\ last.target.kind = "element"
     /\ last.log = <<last.target.el>>
     /\ api[last.target.el] = "none"
     /\ last.before.slot[last.target.el] = <<"A">>)
        => \A c \in SlotClicks(last.target.el) :
               Dispatch(variant, "none", listeners[c.el], slot[c.el], c).calls
                   = <<"L", "A">>

---------------------------------------------------------------------------
(* Properties of the generated script *)

\* C13: in blankshield.js the URL is embedded safely into the generated
\* script: for every non-empty URL, one holding a double quote, a backslash
\* or a line feed included, the script that runs calls window.open exactly
\* once with an argument equal to that URL. Stated for one registration on a
\* standard host.
C13_UrlEmbeddedSafely ==
    (/\ ClickReturned
     /\ variant = "iframe"
     /\ OnStandardHost(last.in)
     /\ QualifyingClick(last.in))
        => last.out.openCalls = <<last.in.href.value>>

---------------------------------------------------------------------------
(* Properties of the registration utility's choice of mechanism *)

\* the registrations of element x, which offers API a, are what one
\* registration of the listener leaves of the registrations ls (native) and
\* sl (onclick property) that were there before, by the one mechanism the
\* priority order gives
RegisteredByPriority(a, x, ls, sl) ==
    IF a \in {"std", "attach"}
    THEN /\ slot[x] = sl
         /\ "L" \in Range(listeners[x])
         /\ listeners[x] \in {ls, Append(ls, "L")}
         /\ a = "attach" => listeners[x] = Append(ls, "L")
    ELSE /\ listeners[x] = ls
         /\ slot[x] = <<"L">> \o sl

\* C14: one registration through the utility uses exactly one mechanism, by
\* feature probing on the element: the standard subscription API if present;
\* else attachEvent; else, if the onclick property holds a handler, a chain
\* of the new handler and the one held; else assignment to the property.
\* Registrations accumulate in the first two tiers, which leave the property
\* as it was; the property is overwritten only when it held no handler.
C14_OneMechanismByPriority ==
    (/\ AttachReturned
     /\ last.target.kind = "element"
     /\ last.log = <<last.target.el>>)
        => RegisteredByPriority(api[last.target.el], last.target.el,
               last.before.listeners[last.target.el],
               last.before.slot[last.target.el])

---------------------------------------------------------------------------
(* Properties of the cancellation and of the event the listener is given *)

\* the event of the click c exposes preventDefault
ExposesPreventDefault(c) == c.d.arg = "std"

\* the value a listener returned is falsy
Falsy(ret) == ret \in {"false", Undefined}

\* C15: on a qualifying click the listener cancels the default navigation by
\* exactly one mechanism, preventDefault when the event exposes it and
\* returnValue = false otherwise (never both, never neither), and returns a
\* falsy value. Stated for one registration on a standard host, where the
\* event exposes preventDefault.
C15_CancelsByOneMechanism ==
    (/\ ClickReturned
     /\ OnStandardHost(last.in)
     /\ QualifyingClick(last.in))
        => /\ last.out.pd = (IF ExposesPreventDefault(last.in) THEN 1 ELSE 0)
           /\ last.out.rv = (IF ExposesPreventDefault(last.in) THEN 0 ELSE 1)
           /\ \A i \in DOMAIN last.out.rets : Falsy(last.out.rets[i])

\* the listener of the click c got no event with a target: no argument at
\* all, or the legacy event; the implicit global event is there
WithoutTarget(c) == c.d.arg \in {"none", "legacy"} /\ c.d.win = "legacy"

\* what the listener decides on the click c when it is handed a standard
\* event for the same element and modifier flags
StandardDecision(c) ==
    Invoke(variant, "L", [arg |-> "std", win |-> "std"],
           c.href, c.target, c.mods, FALSE)

\* C16: a listener invoked without an argument (as the chaining wrapper
\* invokes it) or with an event that has no target field reads the implicit
\* global event and its srcElement, decides as it decides for a standard
\* event with the same element and modifier flags (isolate and cancel, or do
\* nothing), and raises no error. Stated for one registration on a host
\* whose elements offer attachEvent only.
C16_ToleratesEventWithoutTarget ==
    (/\ ClickReturned
     /\ OnAttachEventHost(last.in)
     /\ WithoutTarget(last.in))
        => /\ last.out.errors = 0
           /\ last.out.iso = StandardDecision(last.in).iso
           /\ Cancels(last.out) = Cancels(StandardDecision(last.in))

---------------------------------------------------------------------------
(* Properties of the order of the isolation steps *)

\* the steps of one isolation call in the order claimed
StepsInOrder ==
    <<"append", "parent=null", "top=null", "frameElement=null", "open",
      "disown", "remove">>

\* C17: in blankshield.js the steps of one isolation call happen in this
\* order, each exactly once: the iframe is appended; inside it parent, top
\* and frameElement are set to null; window.open is called; the opener of the
\* handle it returned is set to null; the iframe is removed. Stated for one
\* registration on a standard host and a click whose window.open returns a
\* handle.
C17_IsolationStepsInOrder ==
    (/\ ClickReturned
     /\ variant = "iframe"
     /\ OnStandardHost(last.in)
     /\ QualifyingClick(last.in)
     /\ ~last.in.blocked)
        => last.out.steps = StepsInOrder

---------------------------------------------------------------------------
(* Properties of failures *)

\* the index (from 1) of the first entry of items that is no element
FirstFailure(items) ==
    CHOOSE k \in DOMAIN items :
        /\ items[k] \notin Elements
        /\ \A j \in 1..(k - 1) : items[j] \in Elements

\* the call that has just returned raised after it had registered, in order,
\* on the entries before index k, and on nothing else
AbortedAt(items, k) ==
    /\ last.threw
    /\ last.log = SubSeq(items, 1, k - 1)
    /\ \A e \in Range(last.log) : Attached(e)
    /\ \A e \in Elements \ Range(last.log) :
           /\ listeners[e] = last.before.listeners[e]
           /\ slot[e] = last.before.slot[e]

\* C18: when attach is given a collection and the registration on the entry
\* at index k fails (the entry is null), the failure is not caught: the
\* entries before k stay registered, the entries from k on are not
\* registered, and the error reaches the caller of attach.
C18_FailureAbortsTheRest ==
    (/\ AttachReturned
     /\ last.target.kind = "array"
     /\ \E i \in DOMAIN last.target.items : last.target.items[i] \notin Elements)
        => AbortedAt(last.target.items, FirstFailure(last.target.items))

\* a call with an element followed by null has raised, with the element
\* registered and the other element of the page untouched
C18_Witness ==
    /\ AttachReturned
    /\ last.target.kind = "array"
    /\ last.target.items = <<"e1", NullValue>>
    /\ last.threw
    /\ last.log = <<"e1">>
    /\ Attached("e1")
    /\ ~Attached("e2")

\* C19: no qualifying click ends with the default navigation left
\* uncancelled, whatever the outcome of the isolation step. Stated for the
\* outcome the claim names first, window.open returning null, and one
\* registration on a standard host.
C19_QualifyingClickAlwaysCancelled ==
    (/\ ClickReturned
     /\ OnStandardHost(last.in)
     /\ QualifyingClick(last.in)
     /\ last.in.blocked)
        => Cancels(last.out) >= 1

====
